---- MODULE Spec2Model ----
(***************************************************************************)
(* A model of pysimenv.core.util: SimClock, Timer and Logger.              *)
(*                                                                         *)
(* Time is counted in integer ticks.  The source keeps time as a float;    *)
(* every decision of Timer.forward is a comparison of a difference of two  *)
(* clock readings against time_res or against interval - time_res, so a    *)
(* tick stands for any fixed unit (in Timer.test one tick is 1e-6 s, the   *)
(* default time_res, which makes dt = 10000 and the interval 100000).      *)
(* The float -inf of last_event_time is the integer NegInf, far below any  *)
(* clock reading the model reaches, so that abs(time - NegInf) exceeds any *)
(* time_res and time - NegInf exceeds any interval, as with -inf.          *)
(***************************************************************************)
EXTENDS Integers, FiniteSets, Sequences, TLC

\* ------------------------------------------------------------------ bounds
MaxTime == 5
MaxStep == 3
MaxRes == 2
MaxInterval == 4
MaxTestStep == 4
MaxTestInterval == 20
MaxLen == 2
MaxStoredLen == 1
SharedMaxTime == 3
SharedMaxStep == 2
SharedMaxRes == 1
SharedMaxInterval == 3
DriveMaxTime == 8
DriveMaxStep == 3
DriveMaxRes == 2
DriveMaxInterval == 4

\* ------------------------------------------------------- program constants
NegInf == -1000000000
AlwaysFire == -1
DefaultTimeRes == 1
TestDt == 10000
TestInterval == 100000
NumIter == 100

None == "None"
TheClock == "SimClock"

Times == 0..MaxTime
Steps == (-1)..MaxStep
Resolutions == 1..MaxRes
Intervals == {AlwaysFire} \cup (2..MaxInterval)

VARIABLES
    time, time_res,
    sim_clock, event_time_interval, is_operating, is_event, last_event_time,
    lastOp, lastArg, err, branch, fwd_run, phase, on_time,
    pc, i, count, dt,
    data, log_is_operating, store, fresh,
    ret, uniform, n_app, ever_added, added, save_clean,
    timers, todo, pre,
    back_moved, res_raised, fwd_updates

clockVars == <<time, time_res>>
timerVars == <<sim_clock, event_time_interval, is_operating, is_event, last_event_time>>
vars == <<time, time_res, sim_clock, event_time_interval, is_operating, is_event,
          last_event_time, lastOp, lastArg, err, branch, fwd_run, phase, on_time,
          pc, i, count, dt,
          data, log_is_operating, store, fresh,
          ret, uniform, n_app, ever_added, added, save_clean,
          timers, todo, pre,
          back_moved, res_raised, fwd_updates>>
obsVars == <<lastOp, lastArg, err, branch, fwd_run, phase, on_time>>
testVars == <<pc, i, count, dt>>
loggerVars == <<data, log_is_operating, store, fresh,
                ret, uniform, n_app, ever_added, added, save_clean>>
sharedVars == <<timers, todo, pre>>
runVars == <<back_moved, res_raised, fwd_updates>>

Abs(x) == IF x < 0 THEN -x ELSE x

\* Observation variables (not fields of the program):
\*   lastOp, lastArg  the last operation called and its argument ({} for none)
\*   err              what that call raised ("none" when it returned)
\*   branch           the path the last forward() took ("-" after another call)
\*   fwd_run          forward() calls made in a row since another call (up to 2)
\*   phase            "off" after turn_off/reset, "reactivated" after the
\*                    turn_on that follows, "evaluated" after the forward()
\*                    that follows that; "restarted" after a turn_on of a timer
\*                    that was on
\*   on_time          the clock time at the last successful turn_on of a timer
\*                    that is still on (NegInf otherwise)
\*   back_moved       the clock has been moved to an earlier time
\*   res_raised       time_res has been raised
\*   fwd_updates      updates of last_event_time made by forward() since the
\*                    last turn_on, turn_off or reset (up to 2)
\* An operation that only returns records itself and ends a run of forward().
Observe(op, arg) ==
    /\ lastOp' = op
    /\ lastArg' = arg
    /\ err' = "none"
    /\ branch' = "-"
    /\ fwd_run' = 0

\* ---------------------------------------------------------------- SimClock
SimClock_init(t, r) ==
    /\ time = t
    /\ time_res = r

SimClock_reset ==
    /\ time' = 0
    /\ UNCHANGED time_res
    /\ Observe("SimClock.reset", {})
    /\ UNCHANGED <<timerVars, phase, on_time>>

apply_time(t) ==
    /\ time' = t
    /\ UNCHANGED time_res
    /\ Observe("apply_time", {t})
    /\ UNCHANGED <<timerVars, phase, on_time>>

apply_time_res(r) ==
    /\ time_res' = r
    /\ UNCHANGED time
    /\ Observe("apply_time_res", {r})
    /\ UNCHANGED <<timerVars, phase, on_time>>

elapse(d) ==
    /\ time' = time + d
    /\ UNCHANGED time_res
    /\ Observe("elapse", {d})
    /\ UNCHANGED <<timerVars, phase, on_time>>

\* ------------------------------------------------------------------- Timer
Timer_init(v) ==
    /\ sim_clock = None
    /\ event_time_interval = v
    /\ is_operating = FALSE
    /\ is_event = FALSE
    /\ last_event_time = NegInf

attach_sim_clock ==
    /\ sim_clock' = TheClock
    /\ UNCHANGED <<event_time_interval, is_operating, is_event, last_event_time>>
    /\ Observe("attach_sim_clock", {})
    /\ UNCHANGED <<clockVars, phase, on_time>>

detach_sim_clock ==
    /\ sim_clock' = None
    /\ UNCHANGED <<event_time_interval, is_operating, is_event, last_event_time>>
    /\ Observe("detach_sim_clock", {})
    /\ UNCHANGED <<clockVars, phase, on_time>>

\* turn_on() that stores the new interval before it looks for the clock.
turn_on_AssignsBeforeCheck(arg) ==
    /\ lastOp' = "turn_on"
    /\ lastArg' = arg
    /\ branch' = "-"
    /\ fwd_run' = 0
    /\ event_time_interval' =
           IF arg # {} THEN CHOOSE v \in arg : TRUE ELSE event_time_interval
    /\ IF sim_clock = None
       THEN /\ err' = "NoSimClockError"
            /\ UNCHANGED <<sim_clock, is_operating, is_event, last_event_time>>
            /\ UNCHANGED <<phase, on_time>>
       ELSE /\ err' = "none"
            /\ is_operating' = TRUE
            /\ is_event' = TRUE
            /\ last_event_time' = time
            /\ UNCHANGED sim_clock
            /\ phase' = IF phase = "off" THEN "reactivated"
                        ELSE IF is_operating THEN "restarted" ELSE "none"
            /\ on_time' = time
    /\ UNCHANGED clockVars

\* turn_on() that leaves last_event_time at -inf, so that the next forward()
\* fires whatever the clock reads.
turn_on_LastEventNegInf(arg) ==
    /\ lastOp' = "turn_on"
    /\ lastArg' = arg
    /\ branch' = "-"
    /\ fwd_run' = 0
    /\ IF sim_clock = None
       THEN /\ err' = "NoSimClockError"
            /\ UNCHANGED timerVars
            /\ UNCHANGED <<phase, on_time>>
       ELSE /\ err' = "none"
            /\ event_time_interval' =
                   IF arg # {} THEN CHOOSE v \in arg : TRUE ELSE event_time_interval
            /\ is_operating' = TRUE
            /\ is_event' = TRUE
            /\ last_event_time' = NegInf
            /\ UNCHANGED sim_clock
            /\ phase' = IF phase = "off" THEN "reactivated"
                        ELSE IF is_operating THEN "restarted" ELSE "none"
            /\ on_time' = time
    /\ UNCHANGED clockVars

\* turn_on() that restarts nothing when the timer is already on.
turn_on_OnlyWhenOff(arg) ==
    /\ lastOp' = "turn_on"
    /\ lastArg' = arg
    /\ branch' = "-"
    /\ fwd_run' = 0
    /\ IF sim_clock = None
       THEN /\ err' = "NoSimClockError"
            /\ UNCHANGED timerVars
            /\ UNCHANGED <<phase, on_time>>
       ELSE /\ err' = "none"
            /\ event_time_interval' =
                   IF arg # {} THEN CHOOSE v \in arg : TRUE ELSE event_time_interval
            /\ is_operating' = TRUE
            /\ IF is_operating
               THEN UNCHANGED <<is_event, last_event_time>>
               ELSE /\ is_event' = TRUE
                    /\ last_event_time' = time
            /\ UNCHANGED sim_clock
            /\ phase' = IF phase = "off" THEN "reactivated"
                        ELSE IF is_operating THEN "restarted" ELSE "none"
            /\ on_time' = time
    /\ UNCHANGED clockVars

\* turn_on(event_time_interval): arg is {} for a call without the argument
\* (or with None) and {v} for a call with the value v.
turn_on(arg) ==
    /\ lastOp' = "turn_on"
    /\ lastArg' = arg
    /\ branch' = "-"
    /\ fwd_run' = 0
    /\ IF sim_clock = None
       THEN /\ err' = "NoSimClockError"
            /\ UNCHANGED timerVars
            /\ UNCHANGED <<phase, on_time>>
       ELSE /\ err' = "none"
            /\ event_time_interval' =
                   IF arg # {} THEN CHOOSE v \in arg : TRUE ELSE event_time_interval
            /\ is_operating' = TRUE
            /\ is_event' = TRUE
            /\ last_event_time' = time
            /\ UNCHANGED sim_clock
            /\ phase' = IF phase = "off" THEN "reactivated"
                        ELSE IF is_operating THEN "restarted" ELSE "none"
            /\ on_time' = time
    /\ UNCHANGED clockVars

\* turn_off() that forgets to clear last_event_time.
turn_off_body_KeepsLastEvent ==
    /\ is_operating' = FALSE
    /\ is_event' = FALSE
    /\ UNCHANGED <<sim_clock, event_time_interval, last_event_time>>

turn_off_body ==
    /\ is_operating' = FALSE
    /\ is_event' = FALSE
    /\ last_event_time' = NegInf
    /\ UNCHANGED <<sim_clock, event_time_interval>>

turn_off ==
    /\ turn_off_body
    /\ Observe("turn_off", {})
    /\ phase' = "off"
    /\ on_time' = NegInf
    /\ UNCHANGED clockVars

Timer_reset ==
    /\ turn_off_body
    /\ Observe("Timer.reset", {})
    /\ phase' = "off"
    /\ on_time' = NegInf
    /\ UNCHANGED clockVars

\* forward() without the guard against repeated calls at one clock time.
forward_body_NoGuard ==
    IF event_time_interval = AlwaysFire
    THEN /\ branch' = "always"
         /\ is_event' = TRUE
         /\ last_event_time' = time
    ELSE LET elapsed_time == time - last_event_time
         IN  IF elapsed_time >= (event_time_interval - time_res)
             THEN /\ branch' = "fire"
                  /\ is_event' = TRUE
                  /\ last_event_time' = time
             ELSE /\ branch' = "nofire"
                  /\ is_event' = FALSE
                  /\ UNCHANGED last_event_time

\* forward() that never clears is_event: the flag accumulates.
forward_body_Cumulative ==
    IF Abs(time - last_event_time) <= time_res
    THEN /\ branch' = "guard"
         /\ UNCHANGED <<is_event, last_event_time>>
    ELSE IF event_time_interval = AlwaysFire
    THEN /\ branch' = "always"
         /\ is_event' = TRUE
         /\ last_event_time' = time
    ELSE LET elapsed_time == time - last_event_time
         IN  IF elapsed_time >= (event_time_interval - time_res)
             THEN /\ branch' = "fire"
                  /\ is_event' = TRUE
                  /\ last_event_time' = time
             ELSE /\ branch' = "nofire"
                  /\ UNCHANGED <<is_event, last_event_time>>

\* forward() whose always-fire branch does not record the event time.
forward_body_AlwaysKeepsLast ==
    IF Abs(time - last_event_time) <= time_res
    THEN /\ branch' = "guard"
         /\ UNCHANGED <<is_event, last_event_time>>
    ELSE IF event_time_interval = AlwaysFire
    THEN /\ branch' = "always"
         /\ is_event' = TRUE
         /\ UNCHANGED last_event_time
    ELSE LET elapsed_time == time - last_event_time
         IN  IF elapsed_time >= (event_time_interval - time_res)
             THEN /\ branch' = "fire"
                  /\ is_event' = TRUE
                  /\ last_event_time' = time
             ELSE /\ branch' = "nofire"
                  /\ is_event' = FALSE
                  /\ UNCHANGED last_event_time

\* forward() that compares the elapsed time with the interval itself, without
\* the time_res tolerance, and strictly.
forward_body_NoTolerance ==
    IF Abs(time - last_event_time) <= time_res
    THEN /\ branch' = "guard"
         /\ UNCHANGED <<is_event, last_event_time>>
    ELSE IF event_time_interval = AlwaysFire
    THEN /\ branch' = "always"
         /\ is_event' = TRUE
         /\ last_event_time' = time
    ELSE LET elapsed_time == time - last_event_time
         IN  IF elapsed_time > event_time_interval
             THEN /\ branch' = "fire"
                  /\ is_event' = TRUE
                  /\ last_event_time' = time
             ELSE /\ branch' = "nofire"
                  /\ is_event' = FALSE
                  /\ UNCHANGED last_event_time

\* forward() whose guard also clears is_event, so that a repeated call at the
\* time of an event reports no event.
forward_body_GuardClears ==
    IF Abs(time - last_event_time) <= time_res
    THEN /\ branch' = "guard"
         /\ is_event' = FALSE
         /\ UNCHANGED last_event_time
    ELSE IF event_time_interval = AlwaysFire
    THEN /\ branch' = "always"
         /\ is_event' = TRUE
         /\ last_event_time' = time
    ELSE LET elapsed_time == time - last_event_time
         IN  IF elapsed_time >= (event_time_interval - time_res)
             THEN /\ branch' = "fire"
                  /\ is_event' = TRUE
                  /\ last_event_time' = time
             ELSE /\ branch' = "nofire"
                  /\ is_event' = FALSE
                  /\ UNCHANGED last_event_time

\* forward() that keeps the events on the grid of the interval: a fired
\* event is dated one interval after the previous one.
forward_body_OnSchedule ==
    IF Abs(time - last_event_time) <= time_res
    THEN /\ branch' = "guard"
         /\ UNCHANGED <<is_event, last_event_time>>
    ELSE IF event_time_interval = AlwaysFire
    THEN /\ branch' = "always"
         /\ is_event' = TRUE
         /\ last_event_time' = time
    ELSE LET elapsed_time == time - last_event_time
         IN  IF elapsed_time >= (event_time_interval - time_res)
             THEN /\ branch' = "fire"
                  /\ is_event' = TRUE
                  /\ last_event_time' = last_event_time + event_time_interval
             ELSE /\ branch' = "nofire"
                  /\ is_event' = FALSE
                  /\ UNCHANGED last_event_time

\* The assignments of forward() once is_operating holds and the clock is there.
forward_body ==
    IF Abs(time - last_event_time) <= time_res
    THEN /\ branch' = "guard"
         /\ UNCHANGED <<is_event, last_event_time>>
    ELSE IF event_time_interval = AlwaysFire
    THEN /\ branch' = "always"
         /\ is_event' = TRUE
         /\ last_event_time' = time
    ELSE LET elapsed_time == time - last_event_time
         IN  IF elapsed_time >= (event_time_interval - time_res)
             THEN /\ branch' = "fire"
                  /\ is_event' = TRUE
                  /\ last_event_time' = time
             ELSE /\ branch' = "nofire"
                  /\ is_event' = FALSE
                  /\ UNCHANGED last_event_time

\* forward(): reading self.sim_clock.time of a detached clock (None) raises
\* AttributeError before anything is assigned.
forward ==
    /\ lastOp' = "forward"
    /\ lastArg' = {}
    /\ fwd_run' = IF fwd_run < 2 THEN fwd_run + 1 ELSE 2
    /\ phase' = IF phase = "reactivated" THEN "evaluated"
                ELSE IF phase = "off" THEN "off" ELSE "none"
    /\ IF is_operating
       THEN IF sim_clock = None
            THEN /\ err' = "AttributeError"
                 /\ branch' = "raise"
                 /\ UNCHANGED <<is_event, last_event_time>>
            ELSE /\ err' = "none"
                 /\ forward_body
       ELSE /\ err' = "none"
            /\ branch' = "off"
            /\ UNCHANGED <<is_event, last_event_time>>
    /\ UNCHANGED <<sim_clock, event_time_interval, is_operating>>
    /\ UNCHANGED <<clockVars, on_time>>

\* ------------------------------------------------------------------ Logger
\* data is the dict of the logger in insertion order: a sequence of entries
\* [key, val], val the list recorded under key.  store is the group of the
\* h5 file that save() and load() are given: a function from the names of its
\* datasets to arrays, with an empty domain while the group does not exist.
\* fresh is the data of a second, newly created Logger that loads the group.
\* A numpy array is the record [array |-> <<...>>], so that np.array(list)
\* and list(array) are conversions and not the identity.
\* Observation variables of the logger:
\*   ret         what the last call returned: [kind, val]
\*   uniform     every append call so far gave all of LogKeys, and no load
\*   n_app       append calls made while is_operating since the last clear
\*   ever_added  some append call has added a key to data
\*   added       an append or a load has added a key since the last clear
\*   save_clean  the last call was a save into a group that did not exist
LogKeys == {"x", "y"}
KeyOrder == <<"x", "y">>
Values == {1, 2}

\* The keyword arguments of an append call, in the order they are written.
KwArgs ==
    {<<>>} \cup {<<[key |-> k, val |-> v]>> : k \in LogKeys, v \in Values}
           \cup {kw \in {<<[key |-> k1, val |-> v1], [key |-> k2, val |-> v2]>> :
                            k1 \in LogKeys, k2 \in LogKeys,
                            v1 \in Values, v2 \in Values} :
                    kw[1].key # kw[2].key}
GetArgs == {<<>>, <<"x">>, <<"y">>, <<"x", "y">>}

KeysOf(d) == {d[j].key : j \in DOMAIN d}
Lookup(d, k) == d[CHOOSE j \in DOMAIN d : d[j].key = k].val
np_array(l) == [array |-> l]
list(a) == a.array
NoRet == [kind |-> "-", val |-> 0]

Logger_init ==
    /\ data = <<>>
    /\ log_is_operating = TRUE

Logger_is_empty(d) == Len(d) = 0

\* len(): next(iter(...)) of an empty dict raises StopIteration; data is
\* never None.
Logger_len(d) ==
    IF Len(d) = 0
    THEN [err |-> "StopIteration", ret |-> NoRet]
    ELSE [err |-> "none", ret |-> [kind |-> "int", val |-> Len(d[1].val)]]

\* An append that creates the list on KeyError without storing the value.
AppendKey_DropsFirst(d, k, v) ==
    IF k \in KeysOf(d)
    THEN [j \in DOMAIN d |->
             IF d[j].key = k THEN [key |-> k, val |-> Append(d[j].val, v)]
             ELSE d[j]]
    ELSE Append(d, [key |-> k, val |-> <<>>])

\* self.data[key].append(value), creating the list on KeyError.
AppendKey(d, k, v) ==
    IF k \in KeysOf(d)
    THEN [j \in DOMAIN d |->
             IF d[j].key = k THEN [key |-> k, val |-> Append(d[j].val, v)]
             ELSE d[j]]
    ELSE Append(d, [key |-> k, val |-> <<v>>])

RECURSIVE AppendAll(_, _)
AppendAll(d, kw) ==
    IF kw = <<>> THEN d
    ELSE AppendAll(AppendKey(d, Head(kw).key, Head(kw).val), Tail(kw))

\* An append that stores the values whatever is_operating says.
Logger_append_IgnoresFlag(d, on, kw) == AppendAll(d, kw)

Logger_append(d, on, kw) == IF on THEN AppendAll(d, kw) ELSE d

\* get(*args).  With no argument args becomes the dict_keys view, and with
\* exactly one key in data that view is subscripted: TypeError.
Logger_get(d, args) ==
    IF Logger_is_empty(d)
    THEN [err |-> "none", ret |-> [kind |-> "None", val |-> 0]]
    ELSE LET n == IF Len(args) = 0 THEN Len(d) ELSE Len(args)
             ks == IF Len(args) = 0 THEN KeysOf(d)
                   ELSE {args[j] : j \in DOMAIN args}
         IN  IF n = 1 /\ Len(args) = 0
             THEN [err |-> "TypeError", ret |-> NoRet]
             ELSE IF ~(ks \subseteq KeysOf(d))
             THEN [err |-> "KeyError", ret |-> NoRet]
             ELSE IF n = 1
             THEN [err |-> "none",
                   ret |-> [kind |-> "array",
                            val |-> np_array(Lookup(d, args[1]))]]
             ELSE [err |-> "none",
                   ret |-> [kind |-> "dict",
                            val |-> [k \in ks |-> np_array(Lookup(d, k))]]]

\* The loop of save(): h5file[data_group + '/' + key] = value for each item
\* of the dict in order; h5py refuses a name that exists already and raises,
\* keeping what was written before.
RECURSIVE WriteAll(_, _, _)
WriteAll(st, logged, ks) ==
    IF ks = <<>> THEN [err |-> "none", store |-> st]
    ELSE IF Head(ks) \in DOMAIN st
    THEN [err |-> "h5py", store |-> st]
    ELSE WriteAll([k \in DOMAIN st \cup {Head(ks)} |->
                      IF k = Head(ks) THEN logged[k] ELSE st[k]],
                  logged, Tail(ks))

Logger_save(st, d) ==
    LET got == Logger_get(d, <<>>)
    IN  IF got.err # "none" THEN [err |-> got.err, store |-> st]
        ELSE IF got.ret.kind = "None" THEN [err |-> "none", store |-> st]
        ELSE WriteAll(st, got.ret.val, [j \in DOMAIN d |-> d[j].key])

\* self.data[key] = list(value): a key of data keeps its place, a new key
\* goes to the end.
SetKey(d, k, l) ==
    IF k \in KeysOf(d)
    THEN [j \in DOMAIN d |-> IF d[j].key = k THEN [key |-> k, val |-> l] ELSE d[j]]
    ELSE Append(d, [key |-> k, val |-> l])

RECURSIVE LoadAll(_, _, _)
LoadAll(d, st, ks) ==
    IF ks = <<>> THEN d
    ELSE IF Head(ks) \in DOMAIN st
    THEN LoadAll(SetKey(d, Head(ks), list(st[Head(ks)])), st, Tail(ks))
    ELSE LoadAll(d, st, Tail(ks))

\* A load that forgets what the logger held when the group exists.
Logger_load_Replaces(d, st) ==
    IF DOMAIN st = {} THEN d ELSE LoadAll(<<>>, st, KeyOrder)

\* load(): h5file[data_group] raises KeyError when the group does not exist,
\* which is caught; the items of a group come in the order of their names.
Logger_load(d, st) ==
    IF DOMAIN st = {} THEN d ELSE LoadAll(d, st, KeyOrder)

\* No second timer exists.
SharedIdle ==
    /\ timers = <<>>
    /\ todo = {}
    /\ pre = <<>>

\* No logger call has been made.
LoggerIdle ==
    /\ Logger_init
    /\ store = <<>>
    /\ fresh = <<>>
    /\ ret = NoRet
    /\ uniform = TRUE
    /\ n_app = 0
    /\ ever_added = FALSE
    /\ added = FALSE
    /\ save_clean = FALSE

\* ----------------------------------------------------------- specification
ObsInit ==
    /\ lastOp = "init"
    /\ lastArg = {}
    /\ err = "none"
    /\ branch = "-"
    /\ fwd_run = 0
    /\ phase = "none"
    /\ on_time = NegInf
    /\ back_moved = FALSE
    /\ res_raised = FALSE
    /\ fwd_updates = 0

\* A clock at time 0 with some resolution and a timer with some interval (the
\* default -1 among them); no driver loop is running.
Init ==
    /\ \E r \in Resolutions : SimClock_init(0, r)
    /\ \E v \in Intervals : Timer_init(v)
    /\ ObsInit
    /\ pc = "idle"
    /\ i = 0
    /\ count = 0
    /\ dt = 0
    /\ LoggerIdle
    /\ SharedIdle

ClockNext ==
    \/ SimClock_reset
    \/ \E t \in Times : apply_time(t)
    \/ \E r \in Resolutions : apply_time_res(r)
    \/ \E d \in Steps : time + d \in Times /\ elapse(d)

TimerNext ==
    \/ attach_sim_clock
    \/ detach_sim_clock
    \/ \E arg \in {{}} \cup {{v} : v \in Intervals} : turn_on(arg)
    \/ turn_off
    \/ Timer_reset
    \/ forward

Next ==
    /\ ClockNext \/ TimerNext
    /\ UNCHANGED <<testVars, loggerVars, sharedVars, runVars>>

Spec == Init /\ [][Next]_vars

\* ------------------------------------------------- the loop of Timer.test
\* Timer.test: a clock at 0, a timer with the interval, attach, turn_on(),
\* then NumIter times: forward(); count an event if is_event; elapse(dt).
\* Timer.test itself is the configuration <<TestDt, TestInterval,
\* DefaultTimeRes>>; the others run the same loop with other steps d < I.
TestConfigs ==
    {<<TestDt, TestInterval, DefaultTimeRes>>} \cup
    {<<d, v, r>> \in (1..MaxTestStep) \X (2..MaxTestInterval) \X Resolutions :
        d < v}

TestInit ==
    /\ \E c \in TestConfigs :
          /\ dt = c[1]
          /\ Timer_init(c[2])
          /\ SimClock_init(0, c[3])
    /\ ObsInit
    /\ pc = "attach"
    /\ i = 0
    /\ count = 0
    /\ LoggerIdle
    /\ SharedIdle

TestAttach ==
    /\ pc = "attach"
    /\ attach_sim_clock
    /\ pc' = "turn_on"
    /\ UNCHANGED <<i, count, dt>>

TestTurnOn ==
    /\ pc = "turn_on"
    /\ turn_on({})
    /\ pc' = IF i < NumIter THEN "forward" ELSE "done"
    /\ UNCHANGED <<i, count, dt>>

TestForward ==
    /\ pc = "forward"
    /\ forward
    /\ pc' = "is_event"
    /\ UNCHANGED <<i, count, dt>>

\* if timer.is_event: print(...)
TestIsEvent ==
    /\ pc = "is_event"
    /\ count' = IF is_event THEN count + 1 ELSE count
    /\ pc' = "elapse"
    /\ UNCHANGED <<i, dt>>
    /\ UNCHANGED <<clockVars, timerVars, obsVars>>

TestElapse ==
    /\ pc = "elapse"
    /\ elapse(dt)
    /\ i' = i + 1
    /\ pc' = IF i + 1 < NumIter THEN "forward" ELSE "done"
    /\ UNCHANGED <<count, dt>>

TestNext ==
    /\ \/ TestAttach
       \/ TestTurnOn
       \/ TestForward
       \/ TestIsEvent
       \/ TestElapse
    /\ UNCHANGED <<loggerVars, sharedVars, runVars>>

SpecTest == TestInit /\ [][TestNext]_vars

\* ---------------------------------------------------- calls of the Logger
\* What a logger call leaves alone: the clock, the timer and the test loop.
notLogger == <<clockVars, timerVars, testVars, branch, fwd_run, phase, on_time,
              sharedVars, runVars>>

Logger_turn_on ==
    /\ log_is_operating' = TRUE
    /\ lastOp' = "Logger.turn_on" /\ lastArg' = {} /\ err' = "none"
    /\ ret' = NoRet /\ fresh' = <<>> /\ save_clean' = FALSE
    /\ UNCHANGED <<data, store, uniform, n_app, ever_added, added>>
    /\ UNCHANGED notLogger

Logger_turn_off ==
    /\ log_is_operating' = FALSE
    /\ lastOp' = "Logger.turn_off" /\ lastArg' = {} /\ err' = "none"
    /\ ret' = NoRet /\ fresh' = <<>> /\ save_clean' = FALSE
    /\ UNCHANGED <<data, store, uniform, n_app, ever_added, added>>
    /\ UNCHANGED notLogger

clear ==
    /\ data' = <<>>
    /\ n_app' = 0
    /\ added' = FALSE
    /\ lastOp' = "clear" /\ lastArg' = {} /\ err' = "none"
    /\ ret' = NoRet /\ fresh' = <<>> /\ save_clean' = FALSE
    /\ UNCHANGED <<log_is_operating, store, uniform, ever_added>>
    /\ UNCHANGED notLogger

is_empty ==
    /\ ret' = [kind |-> "bool", val |-> Logger_is_empty(data)]
    /\ lastOp' = "is_empty" /\ lastArg' = {} /\ err' = "none"
    /\ fresh' = <<>> /\ save_clean' = FALSE
    /\ UNCHANGED <<data, log_is_operating, store, uniform, n_app, ever_added, added>>
    /\ UNCHANGED notLogger

len ==
    /\ ret' = Logger_len(data).ret
    /\ err' = Logger_len(data).err
    /\ lastOp' = "len" /\ lastArg' = {}
    /\ fresh' = <<>> /\ save_clean' = FALSE
    /\ UNCHANGED <<data, log_is_operating, store, uniform, n_app, ever_added, added>>
    /\ UNCHANGED notLogger

append(kw) ==
    /\ data' = Logger_append(data, log_is_operating, kw)
    /\ uniform' = (uniform /\ {kw[j].key : j \in DOMAIN kw} = LogKeys)
    /\ n_app' = IF ~uniform' THEN 0
                ELSE IF log_is_operating THEN n_app + 1 ELSE n_app
    /\ ever_added' = (ever_added \/
           (log_is_operating /\ \E j \in DOMAIN kw : kw[j].key \notin KeysOf(data)))
    /\ added' = (added \/
           (log_is_operating /\ \E j \in DOMAIN kw : kw[j].key \notin KeysOf(data)))
    /\ lastOp' = "append" /\ lastArg' = {kw} /\ err' = "none"
    /\ ret' = NoRet /\ fresh' = <<>> /\ save_clean' = FALSE
    /\ UNCHANGED <<log_is_operating, store>>
    /\ UNCHANGED notLogger

get(args) ==
    /\ ret' = Logger_get(data, args).ret
    /\ err' = Logger_get(data, args).err
    /\ lastOp' = "get" /\ lastArg' = {args}
    /\ fresh' = <<>> /\ save_clean' = FALSE
    /\ UNCHANGED <<data, log_is_operating, store, uniform, n_app, ever_added, added>>
    /\ UNCHANGED notLogger

save ==
    /\ store' = Logger_save(store, data).store
    /\ err' = Logger_save(store, data).err
    /\ save_clean' = (DOMAIN store = {})
    /\ lastOp' = "save" /\ lastArg' = {}
    /\ ret' = NoRet /\ fresh' = <<>>
    /\ UNCHANGED <<data, log_is_operating, uniform, n_app, ever_added, added>>
    /\ UNCHANGED notLogger

load ==
    /\ data' = Logger_load(data, store)
    /\ uniform' = FALSE
    /\ n_app' = 0
    /\ added' = (added \/ DOMAIN store # {})
    /\ lastOp' = "load" /\ lastArg' = {} /\ err' = "none"
    /\ ret' = NoRet /\ fresh' = <<>> /\ save_clean' = FALSE
    /\ UNCHANGED <<log_is_operating, store, ever_added>>
    /\ UNCHANGED notLogger

\* Logger() followed by its load(h5file, data_group).
load_fresh ==
    /\ fresh' = Logger_load(<<>>, store)
    /\ lastOp' = "load_fresh" /\ lastArg' = {} /\ err' = "none"
    /\ ret' = NoRet /\ save_clean' = FALSE
    /\ UNCHANGED <<data, log_is_operating, store, uniform, n_app, ever_added, added>>
    /\ UNCHANGED notLogger

\* A new Logger and an h5 file without the group; the clock and the timer of
\* the module are left as constructed.
LoggerSpecInit ==
    /\ SimClock_init(0, DefaultTimeRes)
    /\ Timer_init(AlwaysFire)
    /\ ObsInit
    /\ pc = "idle"
    /\ i = 0
    /\ count = 0
    /\ dt = 0
    /\ LoggerIdle
    /\ SharedIdle

\* No list grows beyond n elements.
CanAppend(kw, n) ==
    \A j \in DOMAIN kw :
        kw[j].key \in KeysOf(data) => Len(Lookup(data, kw[j].key)) < n

\* The calls that stay in memory.
LoggerNext ==
    \/ Logger_turn_on
    \/ Logger_turn_off
    \/ clear
    \/ is_empty
    \/ len
    \/ \E kw \in KwArgs : CanAppend(kw, MaxLen) /\ append(kw)
    \/ \E args \in GetArgs : get(args)

SpecLogger == LoggerSpecInit /\ [][LoggerNext]_vars

\* The same calls with save and load on one group of one h5 file, and shorter
\* lists.
PersistNext ==
    \/ Logger_turn_on
    \/ Logger_turn_off
    \/ clear
    \/ is_empty
    \/ len
    \/ \E kw \in KwArgs : CanAppend(kw, MaxStoredLen) /\ append(kw)
    \/ \E args \in GetArgs : get(args)
    \/ save
    \/ load
    \/ load_fresh

\* The h5 file handed to save and load either lacks the group or holds a
\* group written earlier with the key x only.
PersistInit ==
    /\ SimClock_init(0, DefaultTimeRes)
    /\ Timer_init(AlwaysFire)
    /\ ObsInit
    /\ pc = "idle"
    /\ i = 0
    /\ count = 0
    /\ dt = 0
    /\ Logger_init
    /\ \/ store = <<>>
       \/ store = [k \in {"x"} |-> np_array(<<2>>)]
    /\ fresh = <<>>
    /\ ret = NoRet
    /\ uniform = TRUE
    /\ n_app = 0
    /\ ever_added = FALSE
    /\ added = FALSE
    /\ save_clean = FALSE
    /\ SharedIdle

SpecPersist == PersistInit /\ [][PersistNext]_vars

\* ------------------------------------------- several timers on one clock
\* timers[k] holds the fields of the k-th Timer object; all of them refer to
\* the one SimClock of the module (time, time_res).  A driver calls forward()
\* once on every timer between two changes of the clock, in any order: todo
\* is the set of timers still to be called in the step, pre the timers and
\* the clock as they were when the step began.  lastArg names the timer an
\* operation was called on.
TimerIds == {1, 2}
SharedIntervals == {AlwaysFire} \cup (2..SharedMaxInterval)

NewTimer(v) ==
    [sim_clock |-> None, event_time_interval |-> v, is_operating |-> FALSE,
     is_event |-> FALSE, last_event_time |-> NegInf]

T_attach_sim_clock(t) == [t EXCEPT !.sim_clock = TheClock]

T_detach_sim_clock(t) == [t EXCEPT !.sim_clock = None]

\* arg is {} for turn_on() and {v} for turn_on(v); without a clock the call
\* raises NoSimClockError before it assigns anything.
T_turn_on(t, now, arg) ==
    IF t.sim_clock = None
    THEN [t |-> t, err |-> "NoSimClockError"]
    ELSE [t |-> [t EXCEPT !.event_time_interval =
                              IF arg # {} THEN CHOOSE v \in arg : TRUE ELSE @,
                          !.is_operating = TRUE,
                          !.is_event = TRUE,
                          !.last_event_time = now],
          err |-> "none"]

T_turn_off(t) ==
    [t EXCEPT !.is_operating = FALSE, !.is_event = FALSE,
              !.last_event_time = NegInf]

T_reset(t) == T_turn_off(t)

\* forward() of one timer at clock time now with resolution res.
T_forward(t, now, res) ==
    IF ~t.is_operating THEN [t |-> t, err |-> "none"]
    ELSE IF t.sim_clock = None THEN [t |-> t, err |-> "AttributeError"]
    ELSE IF Abs(now - t.last_event_time) <= res THEN [t |-> t, err |-> "none"]
    ELSE IF t.event_time_interval = AlwaysFire
    THEN [t |-> [t EXCEPT !.is_event = TRUE, !.last_event_time = now],
          err |-> "none"]
    ELSE IF now - t.last_event_time >= t.event_time_interval - res
    THEN [t |-> [t EXCEPT !.is_event = TRUE, !.last_event_time = now],
          err |-> "none"]
    ELSE [t |-> [t EXCEPT !.is_event = FALSE], err |-> "none"]

\* pre outside a round of forward() calls.
NoPre == [timers |-> <<>>, time |-> 0, time_res |-> 0]

\* What an operation of the shared setting leaves alone.
notShared == <<timerVars, branch, fwd_run, phase, on_time, i, count, dt, loggerVars,
              runVars>>

Shared_attach_sim_clock(k) ==
    /\ pc = "ops"
    /\ timers' = [timers EXCEPT ![k] = T_attach_sim_clock(@)]
    /\ lastOp' = "attach_sim_clock" /\ lastArg' = {k} /\ err' = "none"
    /\ UNCHANGED <<clockVars, pc, todo, pre>>
    /\ UNCHANGED notShared

Shared_detach_sim_clock(k) ==
    /\ pc = "ops"
    /\ timers' = [timers EXCEPT ![k] = T_detach_sim_clock(@)]
    /\ lastOp' = "detach_sim_clock" /\ lastArg' = {k} /\ err' = "none"
    /\ UNCHANGED <<clockVars, pc, todo, pre>>
    /\ UNCHANGED notShared

Shared_turn_on(k, arg) ==
    /\ pc = "ops"
    /\ timers' = [timers EXCEPT ![k] = T_turn_on(@, time, arg).t]
    /\ lastOp' = "turn_on" /\ lastArg' = {k}
    /\ err' = T_turn_on(timers[k], time, arg).err
    /\ UNCHANGED <<clockVars, pc, todo, pre>>
    /\ UNCHANGED notShared

Shared_turn_off(k) ==
    /\ pc = "ops"
    /\ timers' = [timers EXCEPT ![k] = T_turn_off(@)]
    /\ lastOp' = "turn_off" /\ lastArg' = {k} /\ err' = "none"
    /\ UNCHANGED <<clockVars, pc, todo, pre>>
    /\ UNCHANGED notShared

\* A Timer.reset that also resets the clock it is attached to.
Shared_reset_ResetsClock(k) ==
    /\ pc = "ops"
    /\ timers' = [timers EXCEPT ![k] = T_reset(@)]
    /\ time' = IF timers[k].sim_clock = TheClock THEN 0 ELSE time
    /\ lastOp' = "Timer.reset" /\ lastArg' = {k} /\ err' = "none"
    /\ UNCHANGED <<time_res, pc, todo, pre>>
    /\ UNCHANGED notShared

Shared_reset(k) ==
    /\ pc = "ops"
    /\ timers' = [timers EXCEPT ![k] = T_reset(@)]
    /\ lastOp' = "Timer.reset" /\ lastArg' = {k} /\ err' = "none"
    /\ UNCHANGED <<clockVars, pc, todo, pre>>
    /\ UNCHANGED notShared

\* The driver starts a round of forward() calls.
BeginStep ==
    /\ pc = "ops"
    /\ pc' = "eval"
    /\ todo' = TimerIds
    /\ pre' = [timers |-> timers, time |-> time, time_res |-> time_res]
    /\ lastOp' = "step" /\ lastArg' = {} /\ err' = "none"
    /\ UNCHANGED <<clockVars, timers>>
    /\ UNCHANGED notShared

Shared_forward(k) ==
    /\ pc = "eval"
    /\ k \in todo
    /\ todo' = todo \ {k}
    /\ timers' = [timers EXCEPT ![k] = T_forward(@, time, time_res).t]
    /\ lastOp' = "forward" /\ lastArg' = {k}
    /\ err' = T_forward(timers[k], time, time_res).err
    /\ UNCHANGED <<clockVars, pc, pre>>
    /\ UNCHANGED notShared

\* The round is over; the driver moves the clock, by elapse(d) or by reset().
Shared_elapse(d) ==
    /\ pc = IF todo = {} THEN pc ELSE "ops"
    /\ time + d <= SharedMaxTime
    /\ time' = time + d
    /\ pc' = "ops"
    /\ pre' = NoPre
    /\ lastOp' = "elapse" /\ lastArg' = {} /\ err' = "none"
    /\ UNCHANGED <<time_res, timers, todo>>
    /\ UNCHANGED notShared

Shared_SimClock_reset ==
    /\ pc = IF todo = {} THEN pc ELSE "ops"
    /\ time' = 0
    /\ pc' = "ops"
    /\ pre' = NoPre
    /\ lastOp' = "SimClock.reset" /\ lastArg' = {} /\ err' = "none"
    /\ UNCHANGED <<time_res, timers, todo>>
    /\ UNCHANGED notShared

SharedInit ==
    /\ \E r \in 1..SharedMaxRes : SimClock_init(0, r)
    /\ Timer_init(AlwaysFire)
    /\ ObsInit
    /\ pc = "ops"
    /\ i = 0
    /\ count = 0
    /\ dt = 0
    /\ LoggerIdle
    /\ timers = [k \in TimerIds |-> NewTimer(AlwaysFire)]
    /\ todo = {}
    /\ pre = NoPre

SharedNext ==
    \/ \E k \in TimerIds : Shared_attach_sim_clock(k)
    \/ \E k \in TimerIds : Shared_detach_sim_clock(k)
    \/ \E k \in TimerIds :
          \E arg \in {{}} \cup {{v} : v \in SharedIntervals} : Shared_turn_on(k, arg)
    \/ \E k \in TimerIds : Shared_turn_off(k)
    \/ \E k \in TimerIds : Shared_reset(k)
    \/ BeginStep
    \/ \E k \in TimerIds : Shared_forward(k)
    \/ \E d \in 1..SharedMaxStep : Shared_elapse(d)
    \/ Shared_SimClock_reset

SpecShared == SharedInit /\ [][SharedNext]_vars

\* ------------------------------------------- the timer with its history
\* The operations of Spec, with a record of how the clock was moved and of
\* the updates forward() made.
RunObserve ==
    /\ back_moved' = (back_moved \/ time' < time)
    /\ res_raised' = (res_raised \/ time_res' > time_res)
    /\ fwd_updates' =
           IF lastOp' \in {"turn_on", "turn_off", "Timer.reset"} THEN 0
           ELSE IF lastOp' = "forward" /\ last_event_time' # last_event_time
                   /\ fwd_updates < 2
           THEN fwd_updates + 1
           ELSE fwd_updates

RunNext ==
    /\ ClockNext \/ TimerNext
    /\ RunObserve
    /\ UNCHANGED <<testVars, loggerVars, sharedVars>>

SpecRun == Init /\ [][RunNext]_vars

\* ------------------------------------------ a driver with a fixed step
\* The loop of Timer.test with any step dt, interval and resolution, run
\* for as long as the clock stays within DriveMaxTime: attach, turn_on, then
\* forward() and elapse(dt) in turn.  Between two rounds the clock may also
\* be reset or set to an earlier time while the timer stays on.
DriveConfigs ==
    (1..DriveMaxStep) \X (2..DriveMaxInterval) \X (1..DriveMaxRes)

DriveInit ==
    /\ \E c \in DriveConfigs :
          /\ dt = c[1]
          /\ Timer_init(c[2])
          /\ SimClock_init(0, c[3])
    /\ ObsInit
    /\ pc = "attach"
    /\ i = 0
    /\ count = 0
    /\ LoggerIdle
    /\ SharedIdle

DriveAttach ==
    /\ pc = "attach"
    /\ attach_sim_clock
    /\ pc' = "turn_on"

DriveTurnOn ==
    /\ pc = "turn_on"
    /\ turn_on({})
    /\ pc' = "forward"

DriveForward ==
    /\ pc = "forward"
    /\ forward
    /\ pc' = "elapse"

DriveElapse ==
    /\ pc = "elapse"
    /\ time + dt <= DriveMaxTime
    /\ elapse(dt)
    /\ pc' = "forward"

DriveReset ==
    /\ pc = "elapse"
    /\ time > 0
    /\ SimClock_reset
    /\ pc' = "forward"

DriveSetBack(t) ==
    /\ pc = "elapse"
    /\ t < time
    /\ apply_time(t)
    /\ pc' = "forward"

DriveNext ==
    /\ \/ DriveAttach
       \/ DriveTurnOn
       \/ DriveForward
       \/ DriveElapse
       \/ DriveReset
       \/ \E t \in 1..DriveMaxTime : DriveSetBack(t)
    /\ RunObserve
    /\ UNCHANGED <<i, count, dt, loggerVars, sharedVars>>

SpecDrive == DriveInit /\ [][DriveNext]_vars

\* ------------------------------------------------------------------ claims

\* C1: whenever is_operating is false, is_event is false and last_event_time
\* is negative infinity; and a forward() call made while the timer is off
\* changes no Timer field.
C1_OffInvariant ==
    /\ [](~is_operating => (~is_event /\ last_event_time = NegInf))
    /\ [][(lastOp' = "forward" /\ ~is_operating) => UNCHANGED timerVars]_vars

\* A timer that has been on, was turned off and then had forward() called.
C1_Witness ==
    /\ ~is_operating
    /\ phase = "off"
    /\ lastOp = "forward"
    /\ sim_clock = TheClock

\* C2: turn_on, with or without an interval, while no clock is attached fails
\* with NoSimClockError and leaves every Timer field as it was.
C2_TurnOnNoClock ==
    [][(lastOp' = "turn_on" /\ sim_clock = None)
          => (err' = "NoSimClockError" /\ UNCHANGED timerVars)]_vars

\* A failed turn_on(v) on a timer that is operating with another interval.
C2_Witness ==
    /\ lastOp = "turn_on"
    /\ err = "NoSimClockError"
    /\ is_operating
    /\ lastArg # {}
    /\ lastArg # {event_time_interval}

\* C3: every Timer operation other than turn_on completes without an error
\* in every reachable state.
C3_OthersTotal ==
    lastOp # "turn_on" => err = "none"

\* C4: a second forward() with no clock change after the first leaves
\* is_event and last_event_time as the first call left them.
C4_ForwardIdempotent ==
    [][(fwd_run' = 2 /\ is_operating)
          => (is_event' = is_event /\ last_event_time' = last_event_time)]_vars

\* Two forward() calls in a row at a clock time where a finite-interval timer
\* fired.
C4_Witness ==
    /\ fwd_run = 2
    /\ is_operating
    /\ sim_clock = TheClock
    /\ event_time_interval # AlwaysFire
    /\ is_event
    /\ last_event_time = time

\* C5 as claimed: in the loop with a fixed step dt < interval, the number of
\* steps with is_event true up to the forward() call at clock time T is
\* floor(T / interval) + 1, for every step size (stated here for steps above
\* time_res only, the case most favourable to the claim).
C5_EventCount ==
    (pc = "elapse" /\ time_res < dt)
        => count = (time \div event_time_interval) + 1

\* C5 as amended: the count is floor(T / interval) + 1 when the step divides
\* the interval exactly and exceeds time_res.
C5_EventCountWhenStepDivides ==
    (/\ pc = "elapse"
     /\ event_time_interval % dt = 0
     /\ time_res < dt)
        => count = (time \div event_time_interval) + 1

\* A loop whose step divides the interval (three steps to the interval), past
\* its fourth event.
C5_Witness ==
    /\ pc = "elapse"
    /\ event_time_interval = 3 * dt
    /\ time_res < dt
    /\ count = 4
    /\ is_event
    /\ time = 3 * event_time_interval

\* C6: in the loop of Timer.test with interval = 10 * dt (and dt above
\* time_res, as in the test), is_event is true after forward() exactly at
\* iterations 0, 10, ..., 90, at clock times that are multiples of the
\* interval, and the loop ends with 10 events counted.
C6_TestEvents ==
    (event_time_interval = 10 * dt /\ time_res < dt)
        => /\ pc = "is_event"
                => /\ is_event <=> (i % 10 = 0)
                   /\ is_event => time % event_time_interval = 0
                   /\ time = i * dt
           /\ pc = "done" => (i = NumIter /\ count = 10)

\* Timer.test has run its 100 iterations.
C6_Witness ==
    /\ pc = "done"
    /\ dt = TestDt
    /\ event_time_interval = TestInterval
    /\ time_res = DefaultTimeRes
    /\ count = 10
    /\ time = NumIter * TestDt

\* C7 as claimed: on an operating timer, forward() called at a clock time
\* different from last_event_time, with less than interval - time_res
\* elapsed since then, leaves is_event false.
C7_NotCarriedOver ==
    [][(/\ lastOp' = "forward"
        /\ is_operating
        /\ sim_clock = TheClock
        /\ time # last_event_time
        /\ time - last_event_time < event_time_interval - time_res)
          => ~is_event']_vars

\* C7 as amended: on an operating timer with a finite interval, forward()
\* called at a clock time more than time_res away from last_event_time, with
\* less than interval - time_res elapsed since then, leaves is_event false.
C7_NotCarriedOverBeyondRes ==
    [][(/\ lastOp' = "forward"
        /\ is_operating
        /\ sim_clock = TheClock
        /\ event_time_interval # AlwaysFire
        /\ Abs(time - last_event_time) > time_res
        /\ time - last_event_time < event_time_interval - time_res)
          => ~is_event']_vars

\* forward() has just cleared is_event on an operating timer.
C7_Witness ==
    /\ lastOp = "forward"
    /\ branch = "nofire"
    /\ is_operating
    /\ ~is_event
    /\ time # last_event_time

\* C8 as claimed: in always-fire mode, forward() after a clock advance to a
\* distinct time leaves is_event true and last_event_time equal to the clock
\* time.
C8_AlwaysFires ==
    [][(/\ lastOp = "elapse"
        /\ \E d \in lastArg : d > 0
        /\ lastOp' = "forward"
        /\ is_operating
        /\ sim_clock = TheClock
        /\ event_time_interval = AlwaysFire)
          => (is_event' /\ last_event_time' = time)]_vars

\* C8 as amended: in always-fire mode, forward() after a clock advance leaves
\* is_event true; last_event_time becomes the clock time when the clock is
\* more than time_res away from the last event and is left as it was (within
\* time_res of the clock time) otherwise.
C8_AlwaysFiresBeyondRes ==
    [][(/\ lastOp = "elapse"
        /\ \E d \in lastArg : d > 0
        /\ lastOp' = "forward"
        /\ is_operating
        /\ sim_clock = TheClock
        /\ event_time_interval = AlwaysFire)
          => /\ is_event'
             /\ Abs(time - last_event_time) > time_res => last_event_time' = time
             /\ Abs(time - last_event_time) <= time_res
                    => last_event_time' = last_event_time]_vars

\* forward() has just fired in always-fire mode at a new clock time.
C8_Witness ==
    /\ lastOp = "forward"
    /\ branch = "always"
    /\ is_operating
    /\ event_time_interval = AlwaysFire
    /\ is_event
    /\ last_event_time = time
    /\ time > 0

\* C9 as claimed: after turn_off() and a successful turn_on(), the next
\* forward() leaves is_event true whatever the clock reads.
C9_FiresAfterReactivation ==
    phase = "evaluated" => is_event

\* C9 as amended: after turn_off() and a successful turn_on(), the next
\* forward() leaves is_event true exactly when the clock is within time_res
\* of the reactivation time, or the interval is -1, or at least
\* interval - time_res has elapsed since reactivation (or the clock was
\* detached and the call raised, leaving the flag of turn_on).
C9_FiresAfterReactivationWhenDue ==
    [][(phase = "reactivated" /\ phase' = "evaluated")
          => (is_event' <=>
                 \/ sim_clock = None
                 \/ Abs(time - on_time) <= time_res
                 \/ event_time_interval = AlwaysFire
                 \/ time - on_time >= event_time_interval - time_res)]_vars

\* The first forward() after a reactivation found the clock advanced by less
\* than the interval and cleared is_event.
C9_Witness ==
    /\ phase = "evaluated"
    /\ lastOp = "forward"
    /\ branch = "nofire"
    /\ ~is_event
    /\ time > on_time

\* C10: a successful turn_on, from OFF or from ON, ends with is_operating
\* and is_event true and last_event_time equal to the clock time; the
\* interval is the argument when one is given and is unchanged otherwise.
C10_TurnOnPost ==
    [][(lastOp' = "turn_on" /\ sim_clock = TheClock)
          => /\ err' = "none"
             /\ is_operating'
             /\ is_event'
             /\ last_event_time' = time'
             /\ lastArg' = {} => event_time_interval' = event_time_interval
             /\ lastArg' # {} => lastArg' = {event_time_interval'}]_vars

\* turn_on(v) has just restarted, at a later clock time, a timer that was on.
C10_Witness ==
    /\ lastOp = "turn_on"
    /\ err = "none"
    /\ phase = "restarted"
    /\ lastArg # {}
    /\ time > 0

\* C11: len() on a logger that holds no key returns 0 and does not fail.
C11_LenZeroWhenEmpty ==
    (lastOp = "len" /\ data = <<>>)
        => /\ err = "none"
           /\ ret.kind = "int"
           /\ ret.val = 0

\* C12: get() without a key returns None on an empty logger and otherwise a
\* mapping from every recorded key to the whole sequence of that key, also
\* when exactly one key is recorded.
C12_GetAll ==
    (lastOp = "get" /\ lastArg = {<<>>})
        => /\ err = "none"
           /\ IF data = <<>> THEN ret.kind = "None"
              ELSE /\ ret.kind = "dict"
                   /\ DOMAIN ret.val = KeysOf(data)
                   /\ \A k \in KeysOf(data) :
                          ret.val[k] = np_array(Lookup(data, k))

\* C13: save into a group that did not exist followed by load of that group
\* into a new Logger completes, and get() of the new logger equals get() of
\* the saved one, for the empty, the single-key and every other logger.
C13_RoundTrip ==
    [][(lastOp = "save" /\ save_clean /\ lastOp' = "load_fresh")
          => /\ err = "none"
             /\ Logger_get(data, <<>>).err = "none"
             /\ Logger_get(fresh', <<>>) = Logger_get(data, <<>>)]_vars

\* The value stored for key k, with no key read as the empty list.
SeqOf(d, k) == IF k \in KeysOf(d) THEN Lookup(d, k) ELSE <<>>

\* C14: while every append call has supplied all the keys, every key holds
\* as many values as there were append calls with is_operating true since
\* the last clear, an operating append puts each value at the end of the
\* list of its key, len() returns that number once it is at least 1, and
\* get() returns the lists of all the keys.
C14_EqualLengths ==
    [][/\ uniform'
          => /\ \A j \in DOMAIN data' : Len(data'[j].val) = n_app'
             /\ KeysOf(data') = IF n_app' = 0 THEN {} ELSE LogKeys
       /\ (uniform' /\ lastOp' = "append" /\ log_is_operating)
          => \A kw \in lastArg' : \A j \in DOMAIN kw :
                SeqOf(data', kw[j].key) = Append(SeqOf(data, kw[j].key), kw[j].val)
       /\ (uniform' /\ lastOp' = "len" /\ n_app' >= 1)
          => /\ err' = "none"
             /\ ret'.kind = "int"
             /\ ret'.val = n_app'
       /\ (uniform' /\ lastOp' = "get" /\ lastArg' = {<<>>} /\ n_app' >= 1)
          => /\ err' = "none"
             /\ ret'.kind = "dict"
             /\ ret'.val = [k \in LogKeys |-> np_array(SeqOf(data', k))]]_vars

\* Two appends of x and y, with the logger turned off in between, then len()
\* returned 2.
C14_Witness ==
    /\ uniform
    /\ lastOp = "len"
    /\ ret.kind = "int"
    /\ ret.val = 2
    /\ n_app = 2
    /\ SeqOf(data, "x") = <<2, 1>>
    /\ SeqOf(data, "y") = <<1, 2>>

\* C15 as stated: is_empty() returns true exactly when no append call has
\* ever added a key.
C15_EmptyIffNeverAdded ==
    lastOp = "is_empty" => (ret.val <=> ~ever_added)

\* C15: is_empty() returns true exactly when no key has been added, by an
\* append made while is_operating was true or by a load of an existing
\* group, since the logger was created or last cleared; an append made while
\* is_operating is false leaves the data as it was.
C15_EmptyIffNoKeySinceClear ==
    [][/\ lastOp' = "is_empty"
          => /\ err' = "none"
             /\ ret'.kind = "bool"
             /\ ret'.val <=> ~added'
       /\ (lastOp' = "append" /\ ~log_is_operating)
          => data' = data]_vars

\* is_empty() returned true on a logger that had recorded keys and was
\* cleared, after a call of append with values while it was turned off.
C15_Witness ==
    /\ lastOp = "is_empty"
    /\ ret.kind = "bool"
    /\ ret.val
    /\ ever_added
    /\ ~log_is_operating
    /\ DOMAIN store # {}

\* C16: load raises nothing and leaves is_operating alone; from a group
\* that does not exist it leaves the data alone; from a group that exists
\* every key of the group gets the stored values and every other key keeps
\* its values.
C16_Load ==
    [][lastOp' = "load"
          => /\ err' = "none"
             /\ log_is_operating' = log_is_operating
             /\ DOMAIN store = {} => data' = data
             /\ \A k \in LogKeys :
                    IF k \in DOMAIN store
                    THEN /\ k \in KeysOf(data')
                         /\ Lookup(data', k) = list(store[k])
                    ELSE /\ k \in KeysOf(data') <=> k \in KeysOf(data)
                         /\ SeqOf(data', k) = SeqOf(data, k)]_vars

\* load from a group holding x only, on a logger that holds y and x: y
\* keeps its values and x holds the stored ones.
C16_Witness ==
    /\ lastOp = "load"
    /\ DOMAIN store = {"x"}
    /\ KeysOf(data) = {"x", "y"}
    /\ data[1].key = "x"
    /\ Lookup(data, "x") = list(store["x"])
    /\ Lookup(data, "y") = <<1>>

\* C17: an operation called on one timer leaves the time and the resolution
\* of the shared clock and every field of the other timers as they were;
\* and when all timers are attached, after a round of forward() calls taken
\* in any order every timer is as its own forward() would leave it if it
\* were called first.
C17_SharedClockFrame ==
    [][/\ (lastOp' \in {"attach_sim_clock", "detach_sim_clock", "turn_on",
                       "turn_off", "Timer.reset", "forward"})
          => /\ time' = time
             /\ time_res' = time_res
             /\ \A k \in TimerIds \ lastArg' : timers'[k] = timers[k]
       /\ (pc' = "eval" /\ todo' = {}
             /\ \A k \in TimerIds : pre'.timers[k].sim_clock = TheClock)
          => \A k \in TimerIds :
                timers'[k] = T_forward(pre'.timers[k], pre'.time, pre'.time_res).t]_vars

\* Both timers are attached and on with different intervals; in a round
\* after the clock moved timer 2 was called before timer 1, timer 2 fired
\* and timer 1 did not.
C17_Witness ==
    /\ pc = "eval"
    /\ todo = {}
    /\ lastOp = "forward"
    /\ lastArg = {1}
    /\ \A k \in TimerIds : timers[k].sim_clock = TheClock /\ timers[k].is_operating
    /\ timers[1].event_time_interval # timers[2].event_time_interval
    /\ timers[2].is_event
    /\ timers[2].last_event_time = time
    /\ ~timers[1].is_event
    /\ timers[1].last_event_time < time

\* C18 as stated: while the clock has only been moved forward, after a
\* forward() call on an operating timer (here one attached to its clock)
\* is_event holds exactly when the clock time is within time_res of
\* last_event_time.
C18_EventIffRecent ==
    (~back_moved /\ lastOp = "forward" /\ is_operating /\ sim_clock = TheClock)
        => (is_event <=> Abs(time - last_event_time) <= time_res)

\* C18: while the clock has only been moved forward and time_res has not
\* been raised, after a forward() call that returns on an operating timer
\* is_event holds exactly when the clock time is within time_res of
\* last_event_time; a forward() call that raises because the clock is
\* detached leaves is_event and last_event_time as they were.
C18_EventIffRecentFixedRes ==
    [][(lastOp' = "forward" /\ is_operating')
          => IF err' = "none"
             THEN (~back_moved' /\ ~res_raised')
                     => (is_event' <=> Abs(time' - last_event_time') <= time_res')
             ELSE /\ is_event' = is_event
                  /\ last_event_time' = last_event_time]_vars

\* With the clock only moved forward, forward() fired an event and a later
\* forward() at a later clock time within time_res of it kept is_event.
C18_Witness ==
    /\ ~back_moved
    /\ ~res_raised
    /\ lastOp = "forward"
    /\ err = "none"
    /\ is_operating
    /\ branch = "guard"
    /\ fwd_updates >= 1
    /\ is_event
    /\ time > last_event_time

\* C19: a forward() call that changes last_event_time sets it to the clock
\* time of the call; the clock is then further than time_res from the
\* previous value, and with a finite interval I it has advanced by at least
\* I - time_res and by more than time_res since the previous value, which
\* an earlier forward() or turn_on stored.
C19_UpdatesApart ==
    [][(lastOp' = "forward" /\ last_event_time' # last_event_time)
          => /\ time' = time
             /\ last_event_time' = time
             /\ Abs(time - last_event_time) > time_res
             /\ event_time_interval # AlwaysFire
                => /\ time - last_event_time >= event_time_interval - time_res
                   /\ time - last_event_time > time_res]_vars

\* forward() has updated last_event_time twice since the timer was turned
\* on with a finite interval.
C19_Witness ==
    /\ lastOp = "forward"
    /\ branch = "fire"
    /\ fwd_updates = 2
    /\ is_operating
    /\ event_time_interval # AlwaysFire
    /\ last_event_time = time

\* C20 as stated: under the driver with a fixed step, while the clock has
\* not been set back, a forward() call at a clock time after the last event
\* with at least I - time_res elapsed since it fires an event, and it comes
\* less than I - time_res + dt after that event.
C20_BoundedResponse ==
    [][(pc = "forward" /\ lastOp' = "forward" /\ ~back_moved
          /\ time > last_event_time
          /\ time - last_event_time >= event_time_interval - time_res)
          => /\ is_event'
             /\ last_event_time' = time
             /\ time - last_event_time < event_time_interval - time_res + dt]_vars

\* C20: the same for a step and an interval larger than time_res; and, set
\* back or not, forward() records no event while less than I - time_res has
\* elapsed since the last one.
C20_BoundedResponseBeyondRes ==
    [][(pc = "forward" /\ lastOp' = "forward")
          => /\ (~back_moved /\ time_res < dt /\ time_res < event_time_interval
                   /\ time > last_event_time
                   /\ time - last_event_time >= event_time_interval - time_res)
                => /\ is_event'
                   /\ last_event_time' = time
                   /\ time - last_event_time < event_time_interval - time_res + dt
             /\ time - last_event_time < event_time_interval - time_res
                => last_event_time' = last_event_time]_vars

\* The driver has run without a set-back, with a step that does not divide
\* the interval, and forward() has fired for the second time.
C20_Witness ==
    /\ pc = "elapse"
    /\ lastOp = "forward"
    /\ branch = "fire"
    /\ fwd_updates = 2
    /\ ~back_moved
    /\ time_res < dt
    /\ time_res < event_time_interval
    /\ event_time_interval % dt # 0

====
